---- MODULE Spec2Model ----
(***************************************************************************)
(* Follow / follow-back-check / unfollow lifecycle of the rich schema      *)
(* (improved_db_schema.py: followers, actions, follow_backs, settings)     *)
(* driven by the batch jobs of instagram_automation.py (class              *)
(* InstagramBot, both definitions of the module).                          *)
(*                                                                         *)
(* Time is counted in hours.  `now' is the UTC wall clock, which is what   *)
(* SQLite's CURRENT_TIMESTAMP and DATE('now') read; Python's               *)
(* datetime.now() reads the local clock, now + tz.  Timestamps are stored  *)
(* as text and compared as text, which for one format is the order of the  *)
(* instants, so they are modelled as integers.                             *)
(*                                                                         *)
(* The jobs are run through BotScheduler (scheduler_system.py): by the     *)
(* scheduler thread from schedule.run_pending(), or by the main thread     *)
(* from a manual `run' command.  The job variables pc, step, queue,        *)
(* action_id, stats, executor and task_status are those of the thread      *)
(* named by `thread'; the job of the other thread is kept in `other'.      *)
(* The store can become unavailable (db_ok = FALSE: every sqlite3 call     *)
(* raises).  A start() issued while the thread of an earlier start() is    *)
(* still inside a batch leaves that thread alive (old_loop).               *)
(*                                                                         *)
(* The follow job of the simulated InstagramBot class that                 *)
(* quick_fix_bot.py installs is carried as a third definition of the bot.  *)
(*                                                                         *)
(* Not modelled: the full-cycle, health-check, report and                  *)
(* re-initialisation tasks, the signal handler, the jobs an earlier        *)
(* thread starts once it is back in its loop, and the check and unfollow   *)
(* jobs of the simulated class.                                            *)
(*                                                                         *)
(* Columns no query of the lifecycle reads (full_name, bio, the counters,  *)
(* is_verified, is_private, updated_at, scheduled_for, error_message,      *)
(* attempts) and the logs table are left out.                              *)
(***************************************************************************)
EXTENDS Integers, Sequences, FiniteSets, TLC

\* ---------------------------------------------------------------- bounds
Usernames == {"alice", "bob"}
ProfileLinks == {"l1"}
MaxFollowerId == 3
MaxActions == 3
MaxNow == 24
MaxCap == 1
MaxBatch == 2
TzOffsets == {0 - 12, 0, 12}
CheckHoursValues == {24, 48}

\* ------------------------------------------------------- program constants
CheckDelayHours == 24
HoursPerDay == 24
\* granularity of the clock: half a day
TickHours == HoursPerDay \div 2

\* SQL NULL / Python None, and a present value
NULL == <<>>
Some(v) == <<v>>

VARIABLES
    followers,      \* table followers: set of rows
    followers_seq,  \* AUTOINCREMENT high-water mark of followers.id
    actions,        \* table actions: row i has id i
    follow_backs,   \* table follow_backs: row i has id i
    settings,       \* table settings (the keys the lifecycle reads)
    now,            \* UTC clock, hours
    tz,             \* local clock = now + tz
    bot,            \* InstagramBot instance: definition bound and attributes
    pc,             \* batch job being run: "idle", "follow", "check", "unfollow"
    step,           \* position inside the loop body of the running job
    queue,          \* rows fetched by the job and not yet processed
    action_id,      \* local variable action_id of the loop body
    stats,          \* the dict stats of the job, kept as the task's result
    executor,       \* success flags of the executor calls of the loop body
    task_status,    \* ScheduledTask.status of the task the thread ran last
    add_result,     \* return value of the last add_follower call
    db_ok,          \* the store is available: sqlite3 calls do not raise
    exc,            \* exception in flight: "none", "in_task", "in_loop"
    is_running,     \* BotScheduler.is_running
    stop_event,     \* BotScheduler.stop_event is set
    scheduler_thread, \* "none", "waiting", "pending", "exited", "dead"
    old_loop,       \* the thread of an earlier start(), no longer referenced
    thread,         \* the thread whose job is in pc, step, queue, ...
    other           \* the job of the other thread

vars == <<followers, followers_seq, actions, follow_backs, settings, now, tz,
          bot, pc, step, queue, action_id, stats, executor, task_status,
          add_result, db_ok, exc, is_running, stop_event, scheduler_thread,
          old_loop, thread, other>>

store == <<followers, followers_seq, actions, follow_backs>>
job == <<pc, step, queue, action_id, stats, executor, task_status>>
env == <<settings, tz, bot>>
sched == <<is_running, stop_event, scheduler_thread, old_loop>>
threads == <<thread, other>>

\* ------------------------------------------------------------------ clocks
\* SQLite CURRENT_TIMESTAMP: UTC
CURRENT_TIMESTAMP == now
\* Python datetime.now(): naive local time
datetime_now == now + tz
\* SQLite DATE(t): the calendar day of a timestamp
DATE(t) == t \div HoursPerDay

\* ----------------------------------------------------------------- helpers
Min(a, b) == IF a <= b THEN a ELSE b

\* SQL LIMIT n applied to an ordered result
Limit(rows, n) == SubSeq(rows, 1, Min(n, Len(rows)))

\* ORDER BY f.created_at ASC; rows of one created_at come out in rowid order
RECURSIVE OrderByCreatedAt(_)
OrderByCreatedAt(S) ==
    IF S = {} THEN <<>>
    ELSE LET m == CHOOSE r \in S : \A q \in S :
                      \/ r.created_at < q.created_at
                      \/ (r.created_at = q.created_at /\ r.id <= q.id)
         IN <<m>> \o OrderByCreatedAt(S \ {m})

\* ORDER BY fb.check_scheduled_for ASC over a set of follow_backs ids
RECURSIVE OrderByCheckScheduledFor(_)
OrderByCheckScheduledFor(I) ==
    IF I = {} THEN <<>>
    ELSE LET m == CHOOSE i \in I : \A j \in I :
                      \/ follow_backs[i].check_scheduled_for < follow_backs[j].check_scheduled_for
                      \/ (follow_backs[i].check_scheduled_for = follow_backs[j].check_scheduled_for /\ i <= j)
         IN <<m>> \o OrderByCheckScheduledFor(I \ {m})

\* ascending rowid order of a set of ids
RECURSIVE OrderById(_)
OrderById(I) ==
    IF I = {} THEN <<>>
    ELSE LET m == CHOOSE i \in I : \A j \in I : i <= j
         IN <<m>> \o OrderById(I \ {m})

\* ------------------------------------------------- InstagramDatabase: reads
\* the followers row of a username (username is UNIQUE)
FollowerOf(u) == {f \in followers : f.username = u}
\* JOIN followers f ON fb.follower_id = f.id
JoinFollower(fid) == {f \in followers : f.id = fid}

\* LEFT JOIN actions a ON f.id = a.follower_id AND a.action_type = 'follow'
\*   AND a.status = 'completed'
CompletedFollow(fid) ==
    {i \in DOMAIN actions : /\ actions[i].follower_id = fid
                            /\ actions[i].action_type = "follow"
                            /\ actions[i].status = "completed"}

\* the same query without its WHERE a.id IS NULL filter
get_followers_to_follow_unfiltered(limit) ==
    Limit(OrderByCreatedAt(followers), limit)

\* the same query with the join taken on every follow action, whatever its
\* status
get_followers_to_follow_untried(limit) ==
    Limit(OrderByCreatedAt({f \in followers :
              {i \in DOMAIN actions : /\ actions[i].follower_id = f.id
                                      /\ actions[i].action_type = "follow"} = {}}),
          limit)

\* the same query with the accounts that have a failed follow action put
\* behind the others
get_followers_to_follow_failed_last(limit) ==
    LET pending == {f \in followers : CompletedFollow(f.id) = {}}
        failed == {f \in pending : \E i \in DOMAIN actions :
                       /\ actions[i].follower_id = f.id
                       /\ actions[i].action_type = "follow"
                       /\ actions[i].status = "failed"}
    IN Limit(OrderByCreatedAt(pending \ failed) \o OrderByCreatedAt(failed), limit)

get_followers_to_follow(limit) ==
    Limit(OrderByCreatedAt({f \in followers : CompletedFollow(f.id) = {}}), limit)

get_follow_backs_to_check ==
    LET due == {i \in DOMAIN follow_backs :
                   /\ JoinFollower(follow_backs[i].follower_id) # {}
                   /\ follow_backs[i].check_scheduled_for <= CURRENT_TIMESTAMP
                   /\ follow_backs[i].followed_back = NULL}
        ids == OrderByCheckScheduledFor(due)
    IN [k \in DOMAIN ids |->
           [id |-> ids[k],
            follower_id |-> follow_backs[ids[k]].follower_id,
            username |-> (CHOOSE f \in JoinFollower(follow_backs[ids[k]].follower_id) : TRUE).username]]

\* the SELECT of execute_unfollow_batch without its followed_back = 0 filter
select_users_to_unfollow_unfiltered(limit) ==
    LET due == {i \in DOMAIN follow_backs :
                   /\ JoinFollower(follow_backs[i].follower_id) # {}
                   /\ follow_backs[i].unfollowed_at = NULL}
        ids == OrderById(due)
    IN Limit([k \in DOMAIN ids |->
                 [follower_id |-> follow_backs[ids[k]].follower_id,
                  username |-> (CHOOSE f \in JoinFollower(follow_backs[ids[k]].follower_id) : TRUE).username]],
             limit)

\* the SELECT of execute_unfollow_batch; it has no ORDER BY, rows come out
\* in follow_backs rowid order
select_users_to_unfollow(limit) ==
    LET due == {i \in DOMAIN follow_backs :
                   /\ JoinFollower(follow_backs[i].follower_id) # {}
                   /\ follow_backs[i].followed_back = Some(FALSE)
                   /\ follow_backs[i].unfollowed_at = NULL}
        ids == OrderById(due)
    IN Limit([k \in DOMAIN ids |->
                 [follower_id |-> follow_backs[ids[k]].follower_id,
                  username |-> (CHOOSE f \in JoinFollower(follow_backs[ids[k]].follower_id) : TRUE).username]],
             limit)

CompletedToday(kind) ==
    {i \in DOMAIN actions : /\ actions[i].action_type = kind
                            /\ actions[i].status = "completed"
                            /\ DATE(actions[i].performed_at) = DATE(CURRENT_TIMESTAMP)}

get_statistics ==
    [follows_today |-> Cardinality(CompletedToday("follow")),
     unfollows_today |-> Cardinality(CompletedToday("unfollow"))]

\* ------------------------------------------------ InstagramDatabase: writes
\* INSERT OR REPLACE INTO followers: the row holding the username is deleted
\* and a fresh row is inserted under the next AUTOINCREMENT id
add_follower_rows(u, link) ==
    (followers \ FollowerOf(u)) \cup
        {[id |-> followers_seq + 1, username |-> u, profile_link |-> link,
          created_at |-> CURRENT_TIMESTAMP]}

\* cursor.lastrowid of the INSERT OR REPLACE
add_follower_result == Some(followers_seq + 1)

record_action(fid, kind, status) ==
    Append(actions, [follower_id |-> fid, action_type |-> kind, status |-> status,
                     performed_at |-> CURRENT_TIMESTAMP])

update_action_status(aid, status) ==
    [actions EXCEPT ![aid].status = status, ![aid].performed_at = CURRENT_TIMESTAMP]

schedule_follow_back_check(fid, followed_at) ==
    Append(follow_backs, [follower_id |-> fid,
                          followed_at |-> followed_at,
                          check_scheduled_for |-> followed_at + CheckDelayHours,
                          followed_back |-> NULL,
                          checked_at |-> NULL,
                          unfollowed_at |-> NULL])

\* an update that records the opposite once the row holds a value
update_follow_back_status_again(fbid, followed_back) ==
    [follow_backs EXCEPT ![fbid].followed_back =
                             IF @ = NULL THEN Some(followed_back) ELSE Some(~followed_back),
                         ![fbid].checked_at = Some(CURRENT_TIMESTAMP)]

update_follow_back_status(fbid, followed_back) ==
    [follow_backs EXCEPT ![fbid].followed_back = Some(followed_back),
                         ![fbid].checked_at = Some(CURRENT_TIMESTAMP)]

\* the same UPDATE matching no row
mark_unfollowed_nowhere(fid) == follow_backs

\* UPDATE follow_backs SET unfollowed_at = CURRENT_TIMESTAMP WHERE follower_id = ?
mark_unfollowed(fid) ==
    [i \in DOMAIN follow_backs |->
        IF follow_backs[i].follower_id = fid
        THEN [follow_backs[i] EXCEPT !.unfollowed_at = Some(CURRENT_TIMESTAMP)]
        ELSE follow_backs[i]]

\* ------------------------------------------------------------ configuration
\* the settings rows init_database inserts, as the operator has edited them
\* through update_setting before the run
SettingsValues ==
    [follow_back_check_hours : CheckHoursValues,
     max_daily_follows : 1..MaxCap,
     max_daily_unfollows : 1..MaxCap,
     follows_per_batch : 1..MaxBatch]

\* InstagramBot.__init__.  The first definition of the class reads its caps
\* and batch size from the settings table; the second one, which is the one
\* the name InstagramBot is bound to once the module is imported, fixes them
\* in the constructor.  The model draws them from the same small ranges in
\* both cases so that a cap can be reached within the bounds.  A third
\* definition is the class the script quick_fix_bot.py appends to the module
\* when it finds none: it too fixes them in its constructor.
InstagramBot(def, s) ==
    [def |-> def,
     max_follows_per_day |-> s.max_daily_follows,
     max_unfollows_per_day |-> s.max_daily_unfollows,
     follows_per_batch |-> s.follows_per_batch]

\* stats = {'success': 0, 'failed': 0, ...}.  The check job counts the rows
\* it wrote under 'checked'; the model keeps that count in success.
ZeroStats == [success |-> 0, failed |-> 0]

\* stats[key] += 1
Counted(key) == [stats EXCEPT ![key] = @ + 1]

\* the job variables of a thread that has run no job
IdleJob ==
    [pc |-> "idle", step |-> "next", queue |-> <<>>, action_id |-> 0,
     stats |-> ZeroStats, executor |-> <<>>, task_status |-> "none"]

InitStore ==
    /\ followers = {}
    /\ followers_seq = 0
    /\ actions = <<>>
    /\ follow_backs = <<>>
    /\ now = 0
    /\ pc = "idle"
    /\ step = "next"
    /\ queue = <<>>
    /\ action_id = 0
    /\ stats = ZeroStats
    /\ executor = <<>>
    /\ task_status = "none"
    /\ add_result = NULL
    /\ db_ok = TRUE
    /\ exc = "none"
    /\ is_running = FALSE
    /\ stop_event = FALSE
    /\ scheduler_thread = "none"
    /\ old_loop = "none"
    /\ other = IdleJob

\* a machine whose local clock is UTC and the default check delay; either
\* definition of the bot, every follow cap of the range, the widest
\* unfollow cap and batch size; jobs are run from the main thread
Init ==
    /\ InitStore
    /\ tz = 0
    /\ thread = "main"
    /\ settings \in {s \in SettingsValues : /\ s.follow_back_check_hours = CheckDelayHours
                                            /\ s.max_daily_unfollows = MaxCap
                                            /\ s.follows_per_batch = MaxBatch}
    /\ \E def \in {1, 2} : bot = InstagramBot(def, settings)

\* every local clock and every configured check delay, under the definition
\* of the bot that is in force and the widest cap and batch size
InitClock ==
    /\ InitStore
    /\ tz \in TzOffsets
    /\ thread = "main"
    /\ settings \in {s \in SettingsValues : /\ s.max_daily_follows = MaxCap
                                            /\ s.max_daily_unfollows = MaxCap
                                            /\ s.follows_per_batch = MaxBatch}
    /\ bot = InstagramBot(2, settings)

\* the default settings and the definition of the bot that is in force
DefaultSettings ==
    {s \in SettingsValues : /\ s.follow_back_check_hours = CheckDelayHours
                            /\ s.max_daily_follows = MaxCap
                            /\ s.max_daily_unfollows = MaxCap
                            /\ s.follows_per_batch = MaxBatch}

\* --mode scheduler: every job is run by the scheduler thread
InitDaemon ==
    /\ InitStore
    /\ tz = 0
    /\ thread = "scheduler"
    /\ settings \in DefaultSettings
    /\ bot = InstagramBot(2, settings)

\* --mode cli: the main thread reads commands, among them start, stop and run
InitCli ==
    /\ InitStore
    /\ tz = 0
    /\ thread = "main"
    /\ settings \in DefaultSettings
    /\ bot = InstagramBot(2, settings)

\* ------------------------------------------------------------- environment
\* the job of the main thread and the job of the scheduler thread
MainJob == IF thread = "main" THEN pc ELSE other.pc
SchedulerJob == IF thread = "scheduler" THEN pc ELSE other.pc

\* time passes.  The clock is read in steps of half a day and a batch lasts
\* minutes, so a step of the clock falls between two job runs.
Tick ==
    /\ pc = "idle"
    /\ other.pc = "idle"
    /\ exc = "none"
    /\ now + TickHours <= MaxNow
    /\ now' = now + TickHours
    /\ UNCHANGED <<store, env, job, add_result, db_ok, exc, sched, threads>>

\* import_to_database / manual entry: db.add_follower(username, profile_link);
\* a sqlite3.Error is caught there and None returned
AddFollower(u, link) ==
    /\ followers_seq < MaxFollowerId
    /\ IF db_ok
       THEN /\ followers' = add_follower_rows(u, link)
            /\ followers_seq' = followers_seq + 1
            /\ add_result' = add_follower_result
       ELSE /\ add_result' = NULL
            /\ UNCHANGED <<followers, followers_seq>>
    /\ UNCHANGED <<actions, follow_backs, now, env, job, db_ok, exc, sched, threads>>

\* the store becomes unavailable (locked, unwritable, disk full) and
\* available again
StoreFails ==
    /\ db_ok
    /\ db_ok' = FALSE
    /\ UNCHANGED <<store, now, env, job, add_result, exc, sched, threads>>

StoreRecovers ==
    /\ ~db_ok
    /\ db_ok' = TRUE
    /\ UNCHANGED <<store, now, env, job, add_result, exc, sched, threads>>

\* ------------------------------------------------------------ BotScheduler
\* start(): refuses while is_running; otherwise clears stop_event and starts
\* the thread that runs run_scheduler.  initialize_bot and setup_schedules
\* write to the logs table, so start() does not get there without the store.
\* The thread of an earlier start() is not looked at.  It is still alive
\* after stop() when the join of 30 seconds timed out, which takes a thread
\* that is inside a job; a thread that waits or is between two jobs has left
\* within that time.  The model follows one such earlier thread.
Start ==
    /\ MainJob = "idle"
    /\ ~is_running
    /\ db_ok
    /\ \/ scheduler_thread \in {"none", "exited", "dead"}
       \/ /\ scheduler_thread = "pending"
          /\ SchedulerJob # "idle"
          /\ old_loop \in {"none", "exited"}
    /\ is_running' = TRUE
    /\ stop_event' = FALSE
    /\ scheduler_thread' = "waiting"
    /\ old_loop' = IF scheduler_thread = "pending" THEN "pending" ELSE old_loop
    /\ UNCHANGED <<store, now, env, job, add_result, db_ok, exc, threads>>

\* stop(): is_running = False, stop_event.set(), join(timeout=30)
Stop ==
    /\ MainJob = "idle"
    /\ is_running
    /\ is_running' = FALSE
    /\ stop_event' = TRUE
    /\ UNCHANGED <<store, now, env, job, add_result, db_ok, exc, scheduler_thread,
                   old_loop, threads>>

\* run_scheduler: `while not self.stop_event.is_set()' and the wait of a
\* minute have passed without a stop; schedule.run_pending() begins
RunPending ==
    /\ scheduler_thread = "waiting"
    /\ ~stop_event
    /\ scheduler_thread' = "pending"
    /\ UNCHANGED <<store, now, env, job, add_result, db_ok, exc, is_running,
                   stop_event, old_loop, threads>>

\* schedule.run_pending() has run the jobs that were due and returns
RunPendingDone ==
    /\ scheduler_thread = "pending"
    /\ SchedulerJob = "idle" \/ old_loop = "pending"
    /\ exc = "none"
    /\ scheduler_thread' = "waiting"
    /\ UNCHANGED <<store, now, env, job, add_result, db_ok, exc, is_running,
                   stop_event, old_loop, threads>>

\* run_scheduler sees the stop event and leaves its loop
SchedulerExit ==
    /\ scheduler_thread = "waiting"
    /\ stop_event
    /\ scheduler_thread' = "exited"
    /\ UNCHANGED <<store, now, env, job, add_result, db_ok, exc, is_running,
                   stop_event, old_loop, threads>>

\* the job the earlier thread was inside returns, and with it run_pending();
\* the thread is back in the loop of run_scheduler
OldLoopReturns ==
    /\ old_loop = "pending"
    /\ SchedulerJob = "idle"
    /\ old_loop' = "waiting"
    /\ UNCHANGED <<store, now, env, job, add_result, db_ok, exc, is_running,
                   stop_event, scheduler_thread, threads>>

\* the earlier thread sees the stop event and leaves its loop
OldLoopExit ==
    /\ old_loop = "waiting"
    /\ stop_event
    /\ old_loop' = "exited"
    /\ UNCHANGED <<store, now, env, job, add_result, db_ok, exc, is_running,
                   stop_event, scheduler_thread, threads>>

\* who may start a job: the scheduler thread from inside run_pending(), the
\* main thread from execute_manual_task at any time.  While the earlier
\* thread is inside its job the model starts no second scheduler job.
MayStartJob ==
    /\ exc = "none"
    /\ thread = "scheduler" => scheduler_thread = "pending" /\ old_loop # "pending"

\* the except clause of execute_task: the task is marked FAILED and the
\* failure written to the logs table.  When that write raises as well, the
\* exception leaves execute_task: execute_manual_task catches it, on the
\* scheduler thread it reaches run_scheduler.
TaskExcept ==
    /\ exc = "in_task"
    /\ task_status' = "FAILED"
    /\ exc' = IF db_ok \/ thread = "main" THEN "none" ELSE "in_loop"
    /\ UNCHANGED <<store, now, env, pc, step, queue, action_id, stats, executor,
                   add_result, db_ok, sched, threads>>

\* the except clause of run_scheduler: it writes to the logs table and sleeps
\* a minute.  When that write raises, the exception ends the thread;
\* is_running is left as it was.
LoopExcept ==
    /\ exc = "in_loop"
    /\ exc' = "none"
    /\ scheduler_thread' = IF db_ok THEN "waiting" ELSE "dead"
    /\ UNCHANGED <<store, now, env, job, add_result, db_ok, is_running, stop_event,
                   old_loop, threads>>

\* the interpreter hands the processor to the other thread
Switch ==
    /\ thread = "main" => scheduler_thread \in {"waiting", "pending"}
    /\ thread' = IF thread = "main" THEN "scheduler" ELSE "main"
    /\ other' = [pc |-> pc, step |-> step, queue |-> queue, action_id |-> action_id,
                 stats |-> stats, executor |-> executor, task_status |-> task_status]
    /\ pc' = other.pc
    /\ step' = other.step
    /\ queue' = other.queue
    /\ action_id' = other.action_id
    /\ stats' = other.stats
    /\ executor' = other.executor
    /\ task_status' = other.task_status
    /\ UNCHANGED <<store, now, env, add_result, db_ok, exc, sched>>

\* ------------------------------------------------------- job loop plumbing
\* a loop body that leaves the loop instead of continuing it
NextRow_break ==
    /\ queue' = <<>>
    /\ step' = "next"
    /\ action_id' = 0
    /\ executor' = <<>>
    /\ pc' = "idle"
    /\ task_status' = "COMPLETED"
    /\ exc' = IF ~db_ok THEN "in_task" ELSE exc

\* `continue' / end of the loop body: next row, or return when none is left.
\* On return execute_task stores the result, sets the task COMPLETED and then
\* writes the completion to the logs table, all inside its try block.
NextRow ==
    /\ queue' = Tail(queue)
    /\ step' = "next"
    /\ action_id' = 0
    /\ executor' = <<>>
    /\ pc' = IF Tail(queue) = <<>> THEN "idle" ELSE pc
    /\ task_status' = IF Tail(queue) = <<>> THEN "COMPLETED" ELSE task_status
    /\ exc' = IF Tail(queue) = <<>> /\ ~db_ok THEN "in_task" ELSE exc

\* create_task and the head of execute_task: the task is RUNNING; the job
\* begins with fresh locals
JobBegins ==
    /\ action_id' = 0
    /\ step' = "next"
    /\ executor' = <<>>
    /\ stats' = ZeroStats

\* execute_task cannot write `Started executing task' to the logs table, or
\* the selection of the job raises: the job processes no account
JobRaises ==
    /\ queue' = <<>>
    /\ pc' = "idle"
    /\ task_status' = "RUNNING"
    /\ exc' = "in_task"

\* the job has selected rows: it works through them, or returns at once when
\* there is none
JobSelected(rows, kind) ==
    /\ queue' = rows
    /\ pc' = IF rows = <<>> THEN "idle" ELSE kind
    /\ task_status' = IF rows = <<>> THEN "COMPLETED" ELSE "RUNNING"

\* the class quick_fix_bot.py adds wraps the whole loop in one try block:
\* an exception ends the batch, which returns its stats with
\* follows_per_batch added to failed
BatchAborts ==
    /\ queue' = <<>>
    /\ step' = "next"
    /\ action_id' = 0
    /\ executor' = <<>>
    /\ pc' = "idle"
    /\ task_status' = "COMPLETED"
    /\ exc' = IF ~db_ok THEN "in_task" ELSE exc
    /\ stats' = [stats EXCEPT !.failed = @ + bot.follows_per_batch]

\* a store call of the loop body raises.  In the two classes of
\* instagram_automation.py the except clause of the loop body counts a
\* failure and continues with the next row.
LoopRaises ==
    IF bot.def = 3
    THEN BatchAborts
    ELSE /\ NextRow
         /\ stats' = Counted("failed")

\* ---------------------------------------------------- execute_follow_batch
FollowBatchStart ==
    /\ pc = "idle"
    /\ MayStartJob
    /\ JobBegins
    /\ IF ~db_ok
       THEN JobRaises
       ELSE /\ exc' = exc
            /\ IF bot.def = 1 /\ get_statistics.follows_today >= bot.max_follows_per_day
               THEN JobSelected(<<>>, "follow")
               ELSE LET followers_to_follow == get_followers_to_follow(bot.follows_per_batch)
                    IN /\ Len(actions) + Len(followers_to_follow) <= MaxActions
                       /\ JobSelected(followers_to_follow, "follow")
    /\ UNCHANGED <<store, now, env, add_result, db_ok, sched, threads>>

\* action_id = self.db.record_action(follower_id, 'follow', 'pending'); an
\* exception of the loop body is caught there, counted as a failure, and the
\* loop continues
FollowRecord ==
    /\ pc = "follow" /\ step = "next"
    /\ IF db_ok
       THEN /\ Len(actions) < MaxActions
            /\ actions' = record_action(Head(queue).id, "follow", "pending")
            /\ action_id' = Len(actions) + 1
            /\ step' = "recorded"
            /\ UNCHANGED <<pc, queue, exc, stats, executor, task_status>>
       ELSE /\ LoopRaises
            /\ UNCHANGED actions
    /\ UNCHANGED <<followers, followers_seq, follow_backs, now, env, add_result, db_ok, sched, threads>>

\* the branch the follow loop takes on the results of search_user and
\* follow_user
follow_outcome(search_success, follow_success) ==
    IF search_success /\ follow_success THEN "completed" ELSE "failed"

\* search_user and follow_user, and the status written for their results
FollowExecute(search_success, follow_success) ==
    /\ pc = "follow" /\ step = "recorded"
    /\ bot.def # 3
    /\ IF ~db_ok
       THEN /\ LoopRaises
            /\ UNCHANGED actions
       ELSE IF follow_outcome(search_success, follow_success) = "completed"
       THEN /\ actions' = update_action_status(action_id, "completed")
            /\ step' = "completed"
            /\ executor' = <<search_success, follow_success>>
            /\ UNCHANGED <<pc, queue, action_id, exc, stats, task_status>>
       ELSE /\ actions' = update_action_status(action_id, "failed")
            /\ stats' = Counted("failed")
            /\ NextRow
    /\ UNCHANGED <<followers, followers_seq, follow_backs, now, env, add_result, db_ok, sched, threads>>

\* the class quick_fix_bot.py adds calls no executor: the outcome of a
\* follow is a random draw
FollowSimulated(draw) ==
    /\ pc = "follow" /\ step = "recorded"
    /\ bot.def = 3
    /\ IF ~db_ok
       THEN /\ LoopRaises
            /\ UNCHANGED actions
       ELSE IF draw
       THEN /\ actions' = update_action_status(action_id, "completed")
            /\ step' = "completed"
            /\ UNCHANGED <<pc, queue, action_id, exc, stats, executor, task_status>>
       ELSE /\ actions' = update_action_status(action_id, "failed")
            /\ stats' = Counted("failed")
            /\ NextRow
    /\ UNCHANGED <<followers, followers_seq, follow_backs, now, env, add_result, db_ok, sched, threads>>

\* self.db.schedule_follow_back_check(follower_id, datetime.now()), then
\* stats['success'] += 1
FollowSchedule ==
    /\ pc = "follow" /\ step = "completed"
    /\ IF db_ok
       THEN /\ follow_backs' = schedule_follow_back_check(Head(queue).id, datetime_now)
            /\ stats' = Counted("success")
            /\ NextRow
       ELSE /\ follow_backs' = follow_backs
            /\ LoopRaises
    /\ UNCHANGED <<followers, followers_seq, actions, now, env, add_result, db_ok, sched, threads>>

\* ------------------------------------------------------ check_follow_backs
CheckStart ==
    /\ pc = "idle"
    /\ MayStartJob
    /\ JobBegins
    /\ IF ~db_ok
       THEN JobRaises
       ELSE /\ exc' = exc
            /\ JobSelected(get_follow_backs_to_check, "check")
    /\ UNCHANGED <<store, now, env, add_result, db_ok, sched, threads>>

\* check_if_following_back only navigates and takes a screenshot: its
\* ActionResult says whether that worked, never whether the account follows
\* back.  On success the row is written with followed_back = False.
CheckExecute(check_success) ==
    /\ pc = "check" /\ step = "next"
    /\ IF check_success /\ db_ok
       THEN /\ follow_backs' = update_follow_back_status(Head(queue).id, FALSE)
            /\ stats' = Counted("success")
       ELSE UNCHANGED <<follow_backs, stats>>
    /\ NextRow
    /\ UNCHANGED <<followers, followers_seq, actions, now, env, add_result, db_ok, sched, threads>>

\* -------------------------------------------------- execute_unfollow_batch
\* the LIMIT parameter of the SELECT: what is left of the daily cap in the
\* first definition of the bot, the daily cap itself in the second
UnfollowLimit ==
    IF bot.def = 1
    THEN bot.max_unfollows_per_day - get_statistics.unfollows_today
    ELSE bot.max_unfollows_per_day

UnfollowBatchStart ==
    /\ pc = "idle"
    /\ MayStartJob
    /\ JobBegins
    /\ IF ~db_ok
       THEN JobRaises
       ELSE /\ exc' = exc
            /\ IF bot.def = 1 /\ get_statistics.unfollows_today >= bot.max_unfollows_per_day
               THEN JobSelected(<<>>, "unfollow")
               ELSE LET users_to_unfollow == select_users_to_unfollow(UnfollowLimit)
                    IN /\ Len(actions) + Len(users_to_unfollow) <= MaxActions
                       /\ JobSelected(users_to_unfollow, "unfollow")
    /\ UNCHANGED <<store, now, env, add_result, db_ok, sched, threads>>

\* action_id = self.db.record_action(follower_id, 'unfollow', 'pending')
UnfollowRecord ==
    /\ pc = "unfollow" /\ step = "next"
    /\ IF db_ok
       THEN /\ Len(actions) < MaxActions
            /\ actions' = record_action(Head(queue).follower_id, "unfollow", "pending")
            /\ action_id' = Len(actions) + 1
            /\ step' = "recorded"
            /\ UNCHANGED <<pc, queue, exc, stats, executor, task_status>>
       ELSE /\ NextRow
            /\ stats' = Counted("failed")
            /\ UNCHANGED actions
    /\ UNCHANGED <<followers, followers_seq, follow_backs, now, env, add_result, db_ok, sched, threads>>

\* the branch the unfollow loop takes on the result of unfollow_user
unfollow_outcome(unfollow_success) ==
    IF unfollow_success THEN "completed" ELSE "failed"

\* unfollow_user, and the status written for its result
UnfollowExecute(unfollow_success) ==
    /\ pc = "unfollow" /\ step = "recorded"
    /\ IF ~db_ok
       THEN /\ NextRow
            /\ stats' = Counted("failed")
            /\ UNCHANGED actions
       ELSE IF unfollow_outcome(unfollow_success) = "completed"
       THEN /\ actions' = update_action_status(action_id, "completed")
            /\ step' = "completed"
            /\ executor' = <<unfollow_success>>
            /\ UNCHANGED <<pc, queue, action_id, exc, stats, task_status>>
       ELSE /\ actions' = update_action_status(action_id, "failed")
            /\ stats' = Counted("failed")
            /\ NextRow
    /\ UNCHANGED <<followers, followers_seq, follow_backs, now, env, add_result, db_ok, sched, threads>>

\* UPDATE follow_backs SET unfollowed_at = CURRENT_TIMESTAMP WHERE follower_id = ?,
\* then stats['success'] += 1
UnfollowMark ==
    /\ pc = "unfollow" /\ step = "completed"
    /\ IF db_ok
       THEN /\ follow_backs' = mark_unfollowed(Head(queue).follower_id)
            /\ stats' = Counted("success")
       ELSE /\ follow_backs' = follow_backs
            /\ stats' = Counted("failed")
    /\ NextRow
    /\ UNCHANGED <<followers, followers_seq, actions, now, env, add_result, db_ok, sched, threads>>

\* ------------------------------------------------------- direct store call
\* any caller of InstagramDatabase.update_follow_back_status: the UPDATE is
\* keyed on the row id alone and runs on whatever row carries it
CallUpdateFollowBackStatus(fbid, followed_back) ==
    /\ pc = "idle"
    /\ fbid \in DOMAIN follow_backs
    /\ follow_backs' = update_follow_back_status(fbid, followed_back)
    /\ UNCHANGED <<followers, followers_seq, actions, now, env, job, add_result, db_ok, exc, sched, threads>>

\* ------------------------------------------------------------ specification
Next ==
    \/ Tick
    \/ \E u \in Usernames, link \in ProfileLinks : AddFollower(u, link)
    \/ FollowBatchStart
    \/ FollowRecord
    \/ \E search_success, follow_success \in BOOLEAN :
           FollowExecute(search_success, follow_success)
    \/ FollowSchedule
    \/ CheckStart
    \/ \E check_success \in BOOLEAN : CheckExecute(check_success)
    \/ UnfollowBatchStart
    \/ UnfollowRecord
    \/ \E unfollow_success \in BOOLEAN : UnfollowExecute(unfollow_success)
    \/ UnfollowMark

Spec == Init /\ [][Next]_vars

SpecClock == InitClock /\ [][Next]_vars

\* imports and the follow job, at one reading of the clock
NextFollow ==
    \/ \E u \in Usernames, link \in ProfileLinks : AddFollower(u, link)
    \/ FollowBatchStart
    \/ FollowRecord
    \/ \E search_success, follow_success \in BOOLEAN :
           FollowExecute(search_success, follow_success)
    \/ FollowSchedule

\* imports, the follow job, and callers of the store's own follow-back update
NextApi ==
    \/ NextFollow
    \/ \E fbid \in 1..MaxActions, followed_back \in BOOLEAN :
           CallUpdateFollowBackStatus(fbid, followed_back)

SpecApi == InitCli /\ [][NextApi]_vars

\* the scheduler thread runs the follow job while the store comes and goes
NextDaemon ==
    \/ NextFollow
    \/ Start
    \/ RunPending
    \/ RunPendingDone
    \/ StoreFails
    \/ StoreRecovers
    \/ TaskExcept
    \/ LoopExcept

SpecDaemon == InitDaemon /\ [][NextDaemon]_vars

\* the scheduler thread runs the follow job while the main thread takes the
\* commands start, stop and run follow_batch
NextCli ==
    \/ NextFollow
    \/ Start
    \/ Stop
    \/ RunPending
    \/ RunPendingDone
    \/ SchedulerExit
    \/ OldLoopReturns
    \/ OldLoopExit
    \/ Switch

SpecCli == InitCli /\ [][NextCli]_vars

\* --mode cli with the class that quick_fix_bot.py appends to an
\* instagram_automation.py that has no class InstagramBot
InitSimulated ==
    /\ InitStore
    /\ tz = 0
    /\ thread = "main"
    /\ settings \in DefaultSettings
    /\ bot = InstagramBot(3, settings)

\* imports and the follow job of that class, run by hand while the store
\* comes and goes
NextSimulated ==
    \/ \E u \in Usernames, link \in ProfileLinks : AddFollower(u, link)
    \/ FollowBatchStart
    \/ FollowRecord
    \/ \E draw \in BOOLEAN : FollowSimulated(draw)
    \/ FollowSchedule
    \/ StoreFails
    \/ StoreRecovers
    \/ TaskExcept

SpecSimulated == InitSimulated /\ [][NextSimulated]_vars

\* --mode cli after the command start, the scheduler thread inside
\* run_pending()
InitOverlap ==
    /\ followers = {}
    /\ followers_seq = 0
    /\ actions = <<>>
    /\ follow_backs = <<>>
    /\ now = 0
    /\ pc = "idle"
    /\ step = "next"
    /\ queue = <<>>
    /\ action_id = 0
    /\ stats = ZeroStats
    /\ executor = <<>>
    /\ task_status = "none"
    /\ add_result = NULL
    /\ db_ok = TRUE
    /\ exc = "none"
    /\ is_running = TRUE
    /\ stop_event = FALSE
    /\ scheduler_thread = "pending"
    /\ old_loop = "none"
    /\ other = IdleJob
    /\ tz = 0
    /\ thread = "main"
    /\ settings \in DefaultSettings
    /\ bot = InstagramBot(2, settings)

\* the main thread imports accounts between its commands and runs the follow
\* job (run follow_batch); both threads run the check job, the main thread
\* by run check_followbacks, as time passes
NextOverlap ==
    \/ MainJob = "idle" /\ \E u \in Usernames, link \in ProfileLinks : AddFollower(u, link)
    \/ /\ thread = "main"
       /\ \/ FollowBatchStart
          \/ FollowRecord
          \/ \E search_success, follow_success \in BOOLEAN :
                 FollowExecute(search_success, follow_success)
          \/ FollowSchedule
    \/ Tick
    \/ CheckStart
    \/ \E check_success \in BOOLEAN : CheckExecute(check_success)
    \/ Switch

SpecOverlap == InitOverlap /\ [][NextOverlap]_vars

\* every job run from one thread by the definition of the bot that is in
\* force, under the default settings
SpecBot == InitCli /\ [][Next]_vars

\* either definition of the bot and every batch size of the range
InitFollow ==
    /\ InitStore
    /\ tz = 0
    /\ thread = "main"
    /\ settings \in {s \in SettingsValues : /\ s.follow_back_check_hours = CheckDelayHours
                                            /\ s.max_daily_follows = MaxCap
                                            /\ s.max_daily_unfollows = MaxCap}
    /\ \E def \in {1, 2} : bot = InstagramBot(def, settings)

\* imports and the follow job run from one thread
SpecFollow == InitFollow /\ [][NextFollow]_vars

TypeOK ==
    /\ followers_seq \in 0..MaxFollowerId
    /\ pc \in {"idle", "follow", "check", "unfollow"}
    /\ step \in {"next", "recorded", "completed"}
    /\ Len(actions) <= MaxActions
    /\ now \in 0..MaxNow
    /\ db_ok \in BOOLEAN
    /\ exc \in {"none", "in_task", "in_loop"}
    /\ is_running \in BOOLEAN
    /\ stop_event \in BOOLEAN
    /\ scheduler_thread \in {"none", "waiting", "pending", "exited", "dead"}
    /\ old_loop \in {"none", "waiting", "pending", "exited"}
    /\ thread \in {"main", "scheduler"}
    /\ stats \in [success : 0..MaxActions, failed : 0..MaxActions]
    /\ Len(executor) <= 2
    /\ task_status \in {"none", "RUNNING", "COMPLETED", "FAILED"}
    /\ other.pc \in {"idle", "follow", "check", "unfollow"}

\* ------------------------------------------------ the account, as stored
\* The rich schema has no status column: an account is the followers row of
\* a username together with the follow_backs and actions rows that join to
\* its id.
FollowBacksOf(fid) == {i \in DOMAIN follow_backs : follow_backs[i].follower_id = fid}

StateOfRow(f) ==
    LET fbs == FollowBacksOf(f.id) IN
    IF \E i \in fbs : follow_backs[i].unfollowed_at # NULL THEN "UNFOLLOWED"
    ELSE IF \E i \in fbs : follow_backs[i].followed_back = Some(FALSE) THEN "NO_FOLLOW_BACK"
    ELSE IF \E i \in fbs : follow_backs[i].followed_back = Some(TRUE) THEN "FOLLOWS_BACK"
    ELSE IF fbs # {} \/ CompletedFollow(f.id) # {} THEN "FOLLOWED"
    ELSE "PENDING"

lifecycle_state(u) ==
    IF FollowerOf(u) = {} THEN "ABSENT"
    ELSE StateOfRow(CHOOSE f \in FollowerOf(u) : TRUE)

\* every stored field of the account of a username
Account(u) ==
    {[id |-> f.id,
      profile_link |-> f.profile_link,
      created_at |-> f.created_at,
      lifecycle_state |-> StateOfRow(f),
      follow_backs |-> {follow_backs[i] : i \in FollowBacksOf(f.id)}] : f \in FollowerOf(u)}

\* follows_back of the account of a username: the followed_back values of
\* the follow_backs rows that join to its followers row
follows_back(u) ==
    {follow_backs[i].followed_back : i \in UNION {FollowBacksOf(f.id) : f \in FollowerOf(u)}}

\* the usernames a selection returns
Names(rows) == {rows[k].username : k \in DOMAIN rows}

\* the step is an add_follower call for username u
Added(u) ==
    /\ followers_seq' = followers_seq + 1
    /\ \E f \in followers' : f.id = followers_seq' /\ f.username = u

\* how import_to_database reads the return value of add_follower: a row id
\* counts as a success, None as an error
AddOutcome(result) == IF result = NULL THEN "error" ELSE "created"

\* ================================================================== claims

\* C1: the lifecycle state of an account never regresses: an account that
\* has reached FOLLOWED (or a later state) is never seen at PENDING again,
\* and an UNFOLLOWED account is never seen at an earlier state.
C1_NoRegression ==
    [][\A u \in Usernames :
          /\ lifecycle_state(u) \in {"FOLLOWED", "FOLLOWS_BACK", "NO_FOLLOW_BACK", "UNFOLLOWED"}
                => lifecycle_state(u)' # "PENDING"
          /\ lifecycle_state(u) = "UNFOLLOWED"
                => lifecycle_state(u)' = "UNFOLLOWED"]_vars

\* C2: for every configured check delay, every follow_backs row (every
\* account with a followed_at) has check_due_at = followed_at + check_delay.
C2_CheckDueAtConfiguredDelay ==
    \A i \in DOMAIN follow_backs :
        follow_backs[i].check_scheduled_for =
            follow_backs[i].followed_at + settings.follow_back_check_hours

\* C3: adding a username that is already stored leaves exactly one row for
\* it and returns the outcome 'already exists'.
C3_SecondAddAlreadyExists ==
    [][\A u \in Usernames :
          (FollowerOf(u) # {} /\ Added(u))
             => /\ Cardinality(FollowerOf(u)') = 1
                /\ AddOutcome(add_result') = "already_exists"]_vars

\* C4: adding a username that is already stored leaves its account untouched
\* in every field, and an account that was not due for follow is not due for
\* follow afterwards.
C4_ReAddLeavesRowUntouched ==
    [][\A u \in Usernames :
          (FollowerOf(u) # {} /\ Added(u))
             => /\ Account(u)' = Account(u)
                /\ \A n \in 0..Cardinality(Usernames) :
                      u \in Names(get_followers_to_follow(n))'
                         => u \in Names(get_followers_to_follow(n))]_vars

\* C5: for every limit n the follow selection returns at most n accounts,
\* all of them in PENDING state.
C5_FollowSelectionBoundedAndPending ==
    \A n \in 0..(MaxBatch + 1) :
        LET r == get_followers_to_follow(n) IN
        /\ Len(r) <= n
        /\ \A k \in DOMAIN r : lifecycle_state(r[k].username) = "PENDING"

\* C5 witness: a follow job has pulled its batch while another account is
\* already past PENDING; the filter has left that account out.
C5_Witness ==
    /\ pc = "follow"
    /\ queue # <<>>
    /\ queue = get_followers_to_follow(bot.follows_per_batch)
    /\ \E u \in Usernames :
          /\ lifecycle_state(u) \in {"FOLLOWED", "NO_FOLLOW_BACK", "UNFOLLOWED"}
          /\ u \notin Names(queue)

\* C6: an account followed at instant T0 that is FOLLOWED with follows_back
\* unknown is returned by the check selection exactly when
\* now >= T0 + check_delay.  followed_at is the local reading of T0.
C6_CheckDueExactlyAfterDelay ==
    \A i \in DOMAIN follow_backs :
        (/\ JoinFollower(follow_backs[i].follower_id) # {}
         /\ follow_backs[i].followed_back = NULL)
        => LET T0 == follow_backs[i].followed_at - tz IN
           (\E k \in DOMAIN get_follow_backs_to_check : get_follow_backs_to_check[k].id = i)
              <=> now >= T0 + CheckDelayHours

\* C7: a check whose executor result does not determine reciprocation (the
\* only kind the executor produces) leaves the account FOLLOWED with
\* follows_back unknown, and the next selection at the same `now' returns it.
C7_AmbiguousCheckStaysUnknown ==
    [][(/\ pc = "check"
        /\ queue' = Tail(queue)
        /\ JoinFollower(Head(queue).follower_id) # {})
       => \A row \in {Head(queue)} :
             /\ follow_backs'[row.id].followed_back = NULL
             /\ lifecycle_state(row.username)' = "FOLLOWED"
             /\ \E k \in DOMAIN get_follow_backs_to_check' :
                    get_follow_backs_to_check'[k].id = row.id]_vars

\* C8: UNFOLLOWED is terminal: an account whose unfollow is recorded is not
\* returned by any of the three selections after any further operation.
C8_UnfollowedTerminal ==
    [][\A u \in Usernames :
          lifecycle_state(u) = "UNFOLLOWED"
             => /\ \A n \in 0..Cardinality(Usernames) :
                      u \notin Names(get_followers_to_follow(n))'
                /\ u \notin Names(get_follow_backs_to_check)'
                /\ \A n \in 0..Cardinality(Usernames) :
                      u \notin Names(select_users_to_unfollow(n))']_vars

\* C9: when the follows completed today have reached max_follows_per_day, a
\* run of the follow job pulls no account and attempts no follow.
C9_DailyCapStopsFollowJob ==
    [][(/\ pc = "idle"
        /\ get_statistics.follows_today >= bot.max_follows_per_day)
       => pc' # "follow"]_vars

\* C10: the follows and the unfollows completed within one calendar day never
\* exceed max_follows_per_day and max_unfollows_per_day.
C10_DailyCapsNeverExceeded ==
    /\ get_statistics.follows_today <= bot.max_follows_per_day
    /\ get_statistics.unfollows_today <= bot.max_unfollows_per_day

\* C11: only one batch job runs at a time: never are a job of the scheduler
\* thread and a job started by a manual `run' command executing together.
C11_OneJobAtATime ==
    ~(pc # "idle" /\ other.pc # "idle")

\* C12: once stop is signalled, a job of the scheduler thread that stands
\* between two accounts attempts no further account of its batch.
C12_StopCheckedBetweenAccounts ==
    [][(/\ stop_event
        /\ thread = "scheduler"
        /\ pc = "follow"
        /\ step = "next")
       => ~(thread' = thread /\ step' = "recorded")]_vars

C14_StoreFailureAbortsJob ==
    [][(/\ pc # "idle"
        /\ ~db_ok
        /\ job' # job)
       => (pc' = "idle" /\ exc' # "none")]_vars

\* C15: a store failure ends the job invocation only: the scheduler loop of
\* a started scheduler keeps running.
C15_SchedulerSurvivesStoreFailure ==
    is_running => scheduler_thread \in {"waiting", "pending"}

\* C16: in no state is an account recorded as followed (a completed follow
\* action) without its followed_at and check_scheduled_for (a follow_backs
\* row) being recorded as well.
C16_FollowAppliedAtomically ==
    \A f \in followers : CompletedFollow(f.id) # {} => FollowBacksOf(f.id) # {}

\* C17: a check outcome requested for an account that is past FOLLOWED (its
\* outcome is already recorded) is rejected: followed_back and checked_at of
\* the row stay as they are.
C17_InvalidTransitionRejected ==
    [][\A i \in DOMAIN follow_backs :
          follow_backs[i].followed_back # NULL
             => /\ follow_backs'[i].followed_back = follow_backs[i].followed_back
                /\ follow_backs'[i].checked_at = follow_backs[i].checked_at]_vars

\* C18: when the follow attempt of a stored account fails, the account
\* remains PENDING with no follow_backs row (no followed_at, no check
\* scheduled) and the next follow-batch selection returns it.
C18_FailedFollowStaysPending ==
    [][(/\ pc = "follow"
        /\ step = "recorded"
        /\ job' # job
        /\ actions'[action_id].status = "failed")
       => \A row \in {Head(queue)} :
             JoinFollower(row.id) # {}
                => /\ lifecycle_state(row.username)' = "PENDING"
                   /\ FollowBacksOf(row.id)' = {}
                   /\ row.username \in Names(get_followers_to_follow(bot.follows_per_batch))']_vars

\* C18 witness: a stored account carries a failed follow action, is PENDING
\* and is returned by the follow selection.
C18_Witness ==
    \E f \in followers :
        /\ \E i \in DOMAIN actions :
              /\ actions[i].follower_id = f.id
              /\ actions[i].action_type = "follow"
              /\ actions[i].status = "failed"
        /\ StateOfRow(f) = "PENDING"
        /\ f.username \in Names(get_followers_to_follow(bot.follows_per_batch))

C20_UnfollowOnlyNoFollowBack ==
    /\ \A n \in 0..(MaxCap + 1) :
          LET r == select_users_to_unfollow(n) IN
          /\ Len(r) <= n
          /\ \A k \in DOMAIN r :
                /\ lifecycle_state(r[k].username) = "NO_FOLLOW_BACK"
                /\ \A i \in FollowBacksOf(r[k].follower_id) :
                      /\ follow_backs[i].followed_back = Some(FALSE)
                      /\ follow_backs[i].unfollowed_at = NULL
    /\ \A i \in DOMAIN follow_backs :
          follow_backs[i].unfollowed_at # NULL
             => follow_backs[i].followed_back = Some(FALSE)

\* C20 witness: an unfollow job has pulled its batch while another account is
\* PENDING or FOLLOWED with its check outstanding; that account is left out.
C20_Witness ==
    /\ pc = "unfollow"
    /\ queue # <<>>
    /\ \E u \in Usernames :
          /\ lifecycle_state(u) \in {"PENDING", "FOLLOWED"}
          /\ u \notin Names(queue)
          /\ u \notin Names(select_users_to_unfollow(Cardinality(Usernames)))

C22_ActionRecordedThenFinalOnce ==
    [][/\ Len(actions') >= Len(actions)
       /\ \A i \in DOMAIN actions :
             /\ actions'[i].follower_id = actions[i].follower_id
             /\ actions'[i].action_type = actions[i].action_type
             /\ actions[i].status # "pending" => actions'[i] = actions[i]
       /\ \A i \in DOMAIN actions' \ DOMAIN actions : actions'[i].status = "pending"
       /\ (pc # "idle" /\ pc' = "idle" /\ thread' = thread /\ exc' = "none")
             => \A i \in DOMAIN actions' : actions'[i].status \in {"completed", "failed"}]_vars

\* C23: action records never drive lifecycle logic: two store states with
\* the same followers and follow_backs rows at the same time, differing
\* only in their action records, give the same due-for-follow,
\* due-for-check and due-for-unfollow selections.  The two states compared
\* are the two ends of a step that writes to the actions table alone.
C23_ActionsNeverDriveSelection ==
    [][(followers' = followers /\ follow_backs' = follow_backs /\ now' = now)
          => /\ \A n \in 0..MaxFollowerId :
                   /\ get_followers_to_follow(n)' = get_followers_to_follow(n)
                   /\ select_users_to_unfollow(n)' = select_users_to_unfollow(n)
             /\ get_follow_backs_to_check' = get_follow_backs_to_check]_vars

\* C24: no action is recorded or reported as successful without executor
\* confirmation: an action record becomes completed only in a step in which
\* the executor calls of the loop body all returned success (open profile
\* and tap follow for a follow, the unfollow for an unfollow), and the
\* follow_backs row is written (check scheduled, unfollow marked) and the
\* success counter of the follow or unfollow job incremented only after
\* such calls.
C24_SuccessOnlyWithExecutorConfirmation ==
    [][/\ (\E i \in DOMAIN actions :
              actions[i].status # "completed" /\ actions'[i].status = "completed")
          => /\ executor' # <<>>
             /\ \A k \in DOMAIN executor' : executor'[k]
       /\ (/\ pc \in {"follow", "unfollow"}
           /\ thread' = thread
           /\ stats'.success > stats.success \/ follow_backs' # follow_backs)
          => /\ executor # <<>>
             /\ \A k \in DOMAIN executor : executor[k]]_vars

\* C25: the summary a run of the follow job returns is consistent with the
\* work pulled: the counters start at zero, every step of the job moves
\* each account it takes off the selected rows into exactly one of
\* succeeded and failed, and no counter goes down; so succeeded + failed is
\* the number of accounts attempted and, on return, at most the number
\* selected.
C25_SummaryCountsEachAccountOnce ==
    [][/\ (pc = "idle" /\ pc' = "follow") => stats' = ZeroStats
       /\ (pc = "follow" /\ thread' = thread)
             => /\ stats'.success >= stats.success
                /\ stats'.failed >= stats.failed
                /\ stats'.success + stats'.failed + Len(queue')
                      = stats.success + stats.failed + Len(queue)]_vars

\* C26: after any sequence of start() and stop() calls at most one
\* scheduler loop thread is active: the thread of the latest start() and
\* the thread of an earlier start() are never both inside run_scheduler.
C26_AtMostOneSchedulerLoop ==
    ~(/\ scheduler_thread \in {"waiting", "pending"}
      /\ old_loop \in {"waiting", "pending"})

\* C27: once stop() has set the stop event on a running scheduler, no
\* scheduled job is started: the scheduler thread, idle while the stop event
\* is set, does not begin a job (a job in progress may finish).
C27_NoJobStartedAfterStop ==
    [][(/\ stop_event
        /\ thread = "scheduler"
        /\ thread' = thread
        /\ pc = "idle")
       => pc' = "idle"]_vars

\* C28: every ScheduledTask moves only along PENDING -> RUNNING ->
\* (COMPLETED | FAILED) and never leaves a final status: the status a thread
\* holds changes only when the thread creates and runs a new task, or when
\* its RUNNING task becomes COMPLETED or FAILED.
C28_TaskStatusOrder ==
    [][(thread' = thread /\ task_status' # task_status)
          => \/ /\ pc = "idle"
                /\ exc = "none"
                /\ task_status' \in {"RUNNING", "COMPLETED"}
             \/ /\ task_status = "RUNNING"
                /\ task_status' \in {"COMPLETED", "FAILED"}]_vars

\* the follow actions with status failed recorded for a followers row
FailedFollow(fid) ==
    {i \in DOMAIN actions : /\ actions[i].follower_id = fid
                            /\ actions[i].action_type = "follow"
                            /\ actions[i].status = "failed"}

\* C29: a failed follow does not change an account's position in the
\* pending order: the step that records the failure leaves the follow
\* selection of every size as it was; and an account is attempted only
\* while it is among the first n not-yet-followed accounts in creation
\* order (n the batch size), so an account behind n failing accounts is not
\* attempted until accounts ahead of it have been followed.
C29_FailedFollowKeepsPosition ==
    [][/\ (/\ pc = "follow"
           /\ step = "recorded"
           /\ job' # job
           /\ actions'[action_id].status = "failed")
          => \A n \in 0..MaxFollowerId :
                get_followers_to_follow(n)' = get_followers_to_follow(n)
       /\ (pc = "follow" /\ step = "next" /\ step' = "recorded")
          => \A row \in {Head(queue)} :
                JoinFollower(row.id) # {}
                   => row.username \in Names(get_followers_to_follow(bot.follows_per_batch))]_vars

\* C29 witness: with batch size 1 the oldest pending account has failed
\* twice, is still the one the selection returns, and the stored account
\* behind it has never been attempted.
C29_Witness ==
    /\ bot.follows_per_batch = 1
    /\ pc = "idle"
    /\ \E f, g \in followers :
          /\ f.id < g.id
          /\ Cardinality(FailedFollow(f.id)) >= 2
          /\ get_followers_to_follow(1) = <<f>>
          /\ \A i \in DOMAIN actions : actions[i].follower_id # g.id
          /\ lifecycle_state(g.username) = "PENDING"

\* C30: in the rich schema, after any sequence of add, follow-batch, check
\* and unfollow operations (no job is in progress) each account has at most
\* one follow_backs row, and every account with a completed follow action
\* has exactly one.
C30_OneFollowBackRowPerAccount ==
    (pc = "idle" /\ other.pc = "idle" /\ exc = "none")
       => \A f \in followers :
             /\ Cardinality(FollowBacksOf(f.id)) <= 1
             /\ CompletedFollow(f.id) # {} => Cardinality(FollowBacksOf(f.id)) = 1

====
